---- MODULE Spec2Model ----
(***************************************************************************)
(* Cache-assisted system_info lookup and health_check of the homelab /     *)
(* remotelab Django sample applications.                                   *)
(*                                                                         *)
(* A request to /api/system/ runs system_info: one cache.get, and on a     *)
(* falsy result a sampling of the host facts followed by one cache.set     *)
(* with a 300 second timeout.  The cache is shared by all request          *)
(* handlers; cache.get and cache.set are each atomic, nothing else is.     *)
(* Python values are modelled as TLA+ functions from keys to values (a     *)
(* dict), the empty function being the empty dict, and PyNone for None.    *)
(***************************************************************************)
EXTENDS Integers, FiniteSets, Sequences, TLC

(* ---------------- bounds of the model ---------------- *)

\* number of system_info requests (each request is one call of the view)
NumCalls == 2

\* the clock stops advancing here
MaxTime == 450

(* ---------------- program constants ---------------- *)

\* cache.set(cache_key, cached_info, 300)
CacheTimeout == 300

cache_key == "system_info"

Calls == 1 .. NumCalls

Apps == {"homelab", "remotelab"}

\* the clock advances by half a timeout or by a whole timeout, so that a
\* read falls strictly inside, exactly at, and after the expiry of an entry
Deltas == {CacheTimeout \div 2, CacheTimeout}

\* the hosts (pods) a request may be served on: what os.uname() and
\* platform.* return there
Hosts ==
  { [hostname |-> "pod-a", python_version |-> "3.11.4",
     platform |-> "Linux-6.1-x86_64", architecture |-> "64bit"],
    [hostname |-> "pod-b", python_version |-> "3.9.2",
     platform |-> "Linux-5.10-armv7l", architecture |-> "32bit"] }

SnapshotKeys ==
  {"hostname", "python_version", "platform", "architecture",
   "cache_status", "timestamp"}

(* ---------------- Python values ---------------- *)

PyNone == [tag |-> "None"]

EmptyDict == [k \in {} |-> 0]

\* d[k] = v on a dict
DictSet(d, k, v) == [x \in (DOMAIN d) \cup {k} |-> IF x = k THEN v ELSE d[x]]

\* slip: the branch condition written `if cached_info:`
Truthy_Inverted(v) == ~(v # PyNone /\ DOMAIN v # {})

\* slip: the branch condition written `if cached_info is None:`
Truthy_NotNone(v) == v # PyNone

\* the truth value Python gives `cached_info` in `if not cached_info`
Truthy(v) == v # PyNone /\ DOMAIN v # {}

(* ---------------- the cache backend ---------------- *)

Absent == [state |-> "absent"]

Entry(v, expiry) == [state |-> "stored", value |-> v, expiry |-> expiry]

Expired(c, t) == c # Absent /\ c.expiry <= t

\* slip: a backend that never expires what it stores
CacheGet_NoExpiry(c, t) == IF c = Absent THEN PyNone ELSE c.value

\* cache.get(key): the stored value, None when the key is absent or expired
CacheGet(c, t) == IF c = Absent \/ Expired(c, t) THEN PyNone ELSE c.value

\* slip: the timeout dropped, the entry is expired as soon as it is stored
CacheSet_NoTimeout(c, v, t, timeout) == Entry(v, t)

\* slip: a field-wise store that keeps the hostname already stored
CacheSet_Merge(c, v, t, timeout) ==
  Entry([k \in DOMAIN v |->
           IF k = "hostname" /\ c # Absent /\ k \in DOMAIN c.value
           THEN c.value[k] ELSE v[k]],
        t + timeout)

\* cache.set(key, value, timeout): replaces the whole entry
CacheSet(c, v, t, timeout) == Entry(v, t + timeout)

(* ---------------- the views ---------------- *)

ServiceName(a) == IF a = "homelab" THEN "homelab-api" ELSE "remotelab-api"

\* the dict literal of system_info's miss branch
Sample(h, t) ==
  [hostname |-> h.hostname, python_version |-> h.python_version,
   platform |-> h.platform, architecture |-> h.architecture,
   cache_status |-> "miss", timestamp |-> t]

\* slip: cached_info = {'cache_status': 'hit'}, the retrieved fields dropped
MarkHit_Replace(d) == [cache_status |-> "hit"]

\* the else branch: cached_info['cache_status'] = 'hit'
MarkHit(d) == DictSet(d, "cache_status", "hit")

HealthBody(a, t) ==
  [status |-> "healthy", service |-> ServiceName(a), timestamp |-> t]

NoResponse == [tag |-> "no response"]

(* ---------------- state ---------------- *)

VARIABLES
  app,          \* which of the two applications this deployment runs
  now,          \* the clock, time.time()
  reachable,    \* whether the cache backend answers
  cache,        \* the entry under cache_key in the shared cache
  pc,           \* position of each system_info call
  cached_info,  \* the local variable cached_info of each call
  response,     \* the Response each call returned
  health,       \* the Response of the latest health_check
  lookup,       \* history: what each call's cache.get met in the backend
  reads,        \* history: cache.get calls issued by each call
  writes,       \* history: cache.set calls issued by each call
  setters,      \* history: the calls whose cache.set has completed
  liveMiss      \* history: the latest completed miss not evicted since

vars == <<app, now, reachable, cache, pc, cached_info, response, health,
          lookup, reads, writes, setters, liveMiss>>

NoLookup == [kind |-> "none"]

NoMiss == [tag |-> "no miss"]

\* what the backend holds under the key at time t, as the lookup meets it;
\* a stored dict is falsy in Python exactly when it has no keys
LookupKind(c, t) ==
  IF c = Absent THEN "absent"
  ELSE IF c.expiry <= t THEN "expired"
  ELSE IF DOMAIN c.value = {} THEN "falsy"
  ELSE "present"

Init ==
  /\ app \in Apps
  /\ now = 0
  /\ reachable = TRUE
  /\ cache = Absent
  /\ pc = [p \in Calls |-> "start"]
  /\ cached_info = [p \in Calls |-> PyNone]
  /\ response = [p \in Calls |-> NoResponse]
  /\ health = NoResponse
  /\ lookup = [p \in Calls |-> NoLookup]
  /\ reads = [p \in Calls |-> 0]
  /\ writes = [p \in Calls |-> 0]
  /\ setters = {}
  /\ liveMiss = NoMiss

(* ---------------- system_info ---------------- *)

\* cache.get raises (backend unreachable or timed out); nothing catches it
GetFault(p) ==
  /\ pc' = [pc EXCEPT ![p] = "fault"]
  /\ lookup' = [lookup EXCEPT ![p] = [kind |-> "unreachable"]]
  /\ UNCHANGED <<cache, cached_info, response, writes>>

\* `if not cached_info:` up to the cache.set: the host facts are sampled
MissBranch(p) ==
  /\ \E h \in Hosts :
       cached_info' = [cached_info EXCEPT ![p] = Sample(h, now)]
  /\ pc' = [pc EXCEPT ![p] = "set"]
  /\ UNCHANGED <<cache, response, writes>>

\* slip: the hit branch marks the stored object itself, not a copy of it
HitBranch_WriteBack(p, got) ==
  /\ cached_info' = [cached_info EXCEPT ![p] = MarkHit(got)]
  /\ response' = [response EXCEPT ![p] = MarkHit(got)]
  /\ pc' = [pc EXCEPT ![p] = "done"]
  /\ cache' = [cache EXCEPT !.value = MarkHit(got)]
  /\ UNCHANGED writes

\* slip: the hit branch stores the entry again, with a new timeout
HitBranch_Refresh(p, got) ==
  /\ cached_info' = [cached_info EXCEPT ![p] = MarkHit(got)]
  /\ response' = [response EXCEPT ![p] = MarkHit(got)]
  /\ pc' = [pc EXCEPT ![p] = "done"]
  /\ cache' = CacheSet(cache, got, now, CacheTimeout)
  /\ writes' = [writes EXCEPT ![p] = @ + 1]

\* `else:` and the return: the retrieved copy is marked and returned
HitBranch(p, got) ==
  /\ cached_info' = [cached_info EXCEPT ![p] = MarkHit(got)]
  /\ response' = [response EXCEPT ![p] = MarkHit(got)]
  /\ pc' = [pc EXCEPT ![p] = "done"]
  /\ UNCHANGED <<cache, writes>>

\* system_info up to and including the branch on cached_info:
\* cache.get, then either the sampling of the miss branch (the call goes on
\* to its cache.set) or the hit branch and the return
SystemInfoGet(p) ==
  /\ pc[p] = "start"
  /\ reads' = [reads EXCEPT ![p] = @ + 1]
  /\ IF ~reachable
     THEN GetFault(p)
     ELSE /\ lookup' = [lookup EXCEPT ![p] =
                          [kind |-> LookupKind(cache, now),
                           at |-> now,
                           entry |-> cache,
                           setters |-> setters,
                           miss |-> liveMiss]]
          /\ LET got == CacheGet(cache, now) IN
             IF ~Truthy(got) THEN MissBranch(p) ELSE HitBranch(p, got)
  /\ UNCHANGED <<app, now, reachable, health, setters, liveMiss>>

\* slip: the failure of cache.set caught, the sample returned all the same
SetFault_Swallowed(p) ==
  /\ pc' = [pc EXCEPT ![p] = "done"]
  /\ response' = [response EXCEPT ![p] = cached_info[p]]
  /\ UNCHANGED <<cache, setters, liveMiss>>

\* cache.set raises (backend unreachable or timed out); nothing catches it
SetFault(p) ==
  /\ pc' = [pc EXCEPT ![p] = "fault"]
  /\ UNCHANGED <<cache, response, setters, liveMiss>>

\* the rest of the miss branch: cache.set and the return
SystemInfoSet(p) ==
  /\ pc[p] = "set"
  /\ writes' = [writes EXCEPT ![p] = @ + 1]
  /\ IF ~reachable
     THEN SetFault(p)
     ELSE /\ cache' = CacheSet(cache, cached_info[p], now, CacheTimeout)
          /\ response' = [response EXCEPT ![p] = cached_info[p]]
          /\ pc' = [pc EXCEPT ![p] = "done"]
          /\ setters' = setters \cup {p}
          /\ liveMiss' = [by |-> p, body |-> cached_info[p], at |-> now]
  /\ UNCHANGED <<app, now, reachable, cached_info, health, lookup, reads>>

(* ---------------- health_check ---------------- *)

\* slip: a probe that reports on the cache backend
HealthCheck_Ping ==
  /\ health' = IF reachable
               THEN HealthBody(app, now)
               ELSE [status |-> "unhealthy", service |-> ServiceName(app),
                     timestamp |-> now]
  /\ UNCHANGED <<app, now, reachable, cache, pc, cached_info, response,
                 lookup, reads, writes, setters, liveMiss>>

\* health_check: a constant body and the clock; no cache access
HealthCheck ==
  /\ health' = HealthBody(app, now)
  /\ UNCHANGED <<app, now, reachable, cache, pc, cached_info, response,
                 lookup, reads, writes, setters, liveMiss>>

(* ---------------- environment ---------------- *)

Tick ==
  /\ \E d \in Deltas :
       /\ now + d <= MaxTime
       /\ now' = now + d
  /\ UNCHANGED <<app, reachable, cache, pc, cached_info, response, health,
                 lookup, reads, writes, setters, liveMiss>>

\* the backend drops the entry (capacity eviction, restart)
Evict ==
  /\ reachable
  /\ cache # Absent
  /\ cache' = Absent
  /\ liveMiss' = NoMiss
  /\ UNCHANGED <<app, now, reachable, pc, cached_info, response, health,
                 lookup, reads, writes, setters>>

BackendDown ==
  /\ reachable
  /\ reachable' = FALSE
  /\ UNCHANGED <<app, now, cache, pc, cached_info, response, health,
                 lookup, reads, writes, setters, liveMiss>>

BackendUp ==
  /\ ~reachable
  /\ reachable' = TRUE
  /\ UNCHANGED <<app, now, cache, pc, cached_info, response, health,
                 lookup, reads, writes, setters, liveMiss>>

\* another client of the shared cache stores an empty structure under the key
ExternalSetEmpty ==
  /\ reachable
  /\ cache' = CacheSet(cache, EmptyDict, now, CacheTimeout)
  /\ liveMiss' = NoMiss
  /\ UNCHANGED <<app, now, reachable, pc, cached_info, response, health,
                 lookup, reads, writes, setters>>

(* ---------------- specifications ---------------- *)

\* requests are served concurrently
Next ==
  \/ \E p \in Calls : SystemInfoGet(p)
  \/ \E p \in Calls : SystemInfoSet(p)
  \/ Tick
  \/ Evict
  \/ BackendDown
  \/ BackendUp

Spec == Init /\ [][Next]_vars

\* concurrent requests against a reachable backend, and another client
\* writing to the shared cache
ExtNext ==
  \/ \E p \in Calls : SystemInfoGet(p)
  \/ \E p \in Calls : SystemInfoSet(p)
  \/ Tick
  \/ Evict
  \/ ExternalSetEmpty

ExtSpec == Init /\ [][ExtNext]_vars

\* Kubernetes probes of /api/health/ while one request to /api/system/
\* takes the cache through its states
HealthNext ==
  \/ SystemInfoGet(1)
  \/ SystemInfoSet(1)
  \/ HealthCheck
  \/ Tick
  \/ Evict
  \/ BackendDown
  \/ BackendUp

HealthSpec == Init /\ [][HealthNext]_vars

(* ---------------- properties ---------------- *)

Started(p) == pc[p] \in {"set", "done", "fault"}

Looked(p) == Started(p) /\ lookup[p].kind # "unreachable"

\* the step in which call p completes its cache.set and returns
SetStep(p) == pc[p] = "set" /\ pc'[p] = "done"

\* the fields of a snapshot that describe the host
HostFields == {"hostname", "python_version", "platform", "architecture"}

SameHostFields(d, e) ==
  /\ HostFields \subseteq DOMAIN d
  /\ HostFields \subseteq DOMAIN e
  /\ \A k \in HostFields : d[k] = e[k]

\* call q looked the key up less than CacheTimeout after a completed miss
\* whose entry was not evicted in between
WithinTimeoutOfMiss(q) ==
  /\ Looked(q)
  /\ lookup[q].miss # NoMiss
  /\ lookup[q].at < lookup[q].miss.at + CacheTimeout

\* C1: a call that looks the key up less than 300 seconds after the latest
\* miss completed before it (backend reachable, entry not evicted in between)
\* returns cache_status 'hit' with the hostname, python_version and
\* architecture of that miss's response; this holds for two calls served one
\* after the other and under every interleaving with other calls.
C1_HitWithinTimeout ==
  \A q \in Calls :
    WithinTimeoutOfMiss(q) =>
      /\ pc[q] = "done"
      /\ response[q].cache_status = "hit"
      /\ response[lookup[q].miss.by] = lookup[q].miss.body
      /\ lookup[q].miss.body.cache_status = "miss"
      /\ SameHostFields(response[q], lookup[q].miss.body)

C1_Witness ==
  \E q \in Calls :
    /\ WithinTimeoutOfMiss(q)
    /\ lookup[q].at > lookup[q].miss.at
    /\ pc[q] = "done"
    /\ response[q].cache_status = "hit"

\* what a call's lookup met: an entry whose expiry has elapsed
MetExpired(p) == Looked(p) /\ lookup[p].kind = "expired"

\* C2: a call whose lookup comes once the entry's 300 second expiry has
\* elapsed takes the miss branch: it samples a snapshot whose timestamp is
\* strictly greater than the expired sample's, returns it with cache_status
\* 'miss', and its cache.set stores that snapshot with a new 300 second expiry.
C2_MissAfterExpiry ==
  /\ [](\A p \in Calls :
          MetExpired(p) =>
            /\ cached_info[p].cache_status = "miss"
            /\ cached_info[p].timestamp > lookup[p].entry.value.timestamp
            /\ pc[p] = "done" =>
                 /\ response[p] = cached_info[p]
                 /\ writes[p] = 1)
  /\ [][\A p \in Calls :
          (MetExpired(p) /\ SetStep(p)) =>
            cache' = Entry(cached_info[p], now + CacheTimeout)]_vars

C2_Witness ==
  \E p \in Calls :
    /\ MetExpired(p)
    /\ pc[p] = "done"
    /\ response[p].cache_status = "miss"
    /\ cache = Entry(response[p], lookup[p].entry.expiry + CacheTimeout)

\* C3: starting from an empty cache, under any interleaving, a call reports
\* cache_status 'hit' only if another call had completed its cache.set before
\* this call's cache.get.
C3_NoHitBeforeSet ==
  \A p \in Calls :
    (pc[p] = "done" /\ response[p].cache_status = "hit") =>
      \E r \in lookup[p].setters : r # p

C3_Witness ==
  \E p \in Calls : \E r \in Calls :
    /\ p # r
    /\ pc[p] = "done" /\ response[p].cache_status = "hit"
    /\ pc[r] = "done" /\ response[r].cache_status = "miss"
    /\ lookup[p].setters = {r}
    /\ lookup[r].kind = "absent"

\* a complete snapshot as the miss branch samples it
IsSample(d) == \E h \in Hosts : \E t \in 0 .. now : d = Sample(h, t)

\* C4 as stated: the value stored under the key carries no cache_status.
C4_NoStatusStored ==
  cache # Absent => "cache_status" \notin DOMAIN cache.value

\* C4, amended: the value stored under the key is a complete snapshot that
\* carries the cache_status 'miss' it was sampled with and never 'hit';
\* 'hit' is put only on the copy a call retrieved, and the stored value
\* changes only by eviction or by a cache.set that replaces it whole.
C4_StoredStatusIsMiss ==
  /\ [](cache # Absent =>
          /\ IsSample(cache.value)
          /\ cache.value.cache_status = "miss")
  /\ [][cache' # cache =>
          \/ cache' = Absent
          \/ \E p \in Calls :
               SetStep(p) /\ cache' = Entry(cached_info[p], now + CacheTimeout)]_vars

C4_Witness ==
  \E p \in Calls :
    /\ pc[p] = "done"
    /\ response[p].cache_status = "hit"
    /\ cache # Absent
    /\ cache.value.cache_status = "miss"
    /\ SameHostFields(response[p], cache.value)
    /\ response[p].timestamp = cache.value.timestamp

\* the step in which call p takes the hit branch and returns
HitStep(p) == pc[p] = "start" /\ pc'[p] = "done"

\* C5: a call issues at most one cache.get; a call that returned 'miss' has
\* issued exactly one cache.set, which stores its snapshot with a 300 second
\* expiry; a call that returned 'hit' has issued none and its step leaves the
\* entry and its expiry as they were, so that the entry expires 300 seconds
\* after the miss that stored it however many hits follow.
C5_OneReadOneWriteOnMiss ==
  /\ [](\A p \in Calls :
          /\ reads[p] <= 1
          /\ writes[p] <= 1
          /\ pc[p] = "done" =>
               /\ reads[p] = 1
               /\ response[p].cache_status = "miss" => writes[p] = 1
               /\ response[p].cache_status = "hit" => writes[p] = 0)
  /\ [](cache # Absent /\ liveMiss # NoMiss =>
          cache = Entry(liveMiss.body, liveMiss.at + CacheTimeout))
  /\ [][\A p \in Calls :
          /\ HitStep(p) => cache' = cache
          /\ SetStep(p) => cache' = Entry(cached_info[p], now + CacheTimeout)]_vars

C5_Witness ==
  \E p \in Calls :
    /\ pc[p] = "done"
    /\ response[p].cache_status = "hit"
    /\ writes[p] = 0
    /\ lookup[p].at > lookup[p].miss.at
    /\ cache = Entry(liveMiss.body, liveMiss.at + CacheTimeout)
    /\ writes[liveMiss.by] = 1

\* C6: health_check can be called in every state and returns status
\* 'healthy', the service name of the application and a timestamp, whatever
\* the cache holds and whether or not its backend is reachable; its step
\* issues no cache.get or cache.set and leaves the cache as it was.
C6_HealthAlwaysHealthy ==
  /\ [](ENABLED HealthCheck)
  /\ [](health # NoResponse =>
          /\ DOMAIN health = {"status", "service", "timestamp"}
          /\ health.status = "healthy"
          /\ health.service = ServiceName(app)
          /\ health.timestamp \in 0 .. now)
  /\ [][health' # health =>
          /\ health'.status = "healthy"
          /\ health'.timestamp = now
          /\ cache' = cache
          /\ reads' = reads
          /\ writes' = writes]_vars

C6_Witness ==
  /\ health # NoResponse
  /\ health.timestamp = now
  /\ ~reachable
  /\ Expired(cache, now)

\* C7: every response of system_info contains hostname, python_version,
\* platform, architecture, timestamp and a cache_status that is 'miss' or
\* 'hit'; it is 'miss' exactly when the lookup met an absent key, an expired
\* entry or a falsy value, and a call on an empty cache returns 'miss' with a
\* non-empty hostname.
C7_ResponseShape ==
  \A p \in Calls :
    pc[p] = "done" =>
      /\ SnapshotKeys \subseteq DOMAIN response[p]
      /\ response[p].cache_status \in {"miss", "hit"}
      /\ response[p].cache_status = "miss"
           <=> lookup[p].kind \in {"absent", "expired", "falsy"}
      /\ response[p].cache_status = "hit" <=> lookup[p].kind = "present"
      /\ response[p].hostname # ""
      /\ response[p].timestamp \in 0 .. now

C7_Witness ==
  \E p \in Calls : \E r \in Calls :
    /\ pc[p] = "done" /\ lookup[p].kind = "absent"
    /\ response[p].cache_status = "miss"
    /\ pc[r] = "done" /\ lookup[r].kind = "present"
    /\ response[r].cache_status = "hit"

\* the step in which call p issues a cache operation
CacheOpStep(p) == pc[p] \in {"start", "set"} /\ pc'[p] # pc[p]

C9_LastWriteWins ==
  /\ [](cache # Absent =>
          /\ IsSample(cache.value)
          /\ liveMiss # NoMiss
          /\ cache = Entry(liveMiss.body, liveMiss.at + CacheTimeout)
          /\ cached_info[liveMiss.by] = cache.value
          /\ writes[liveMiss.by] = 1)
  /\ [][\A p \in Calls :
          SetStep(p) => cache' = Entry(cached_info[p], now + CacheTimeout)]_vars

C9_Witness ==
  \E p \in Calls : \E r \in Calls :
    /\ p # r
    /\ lookup[p].kind = "absent" /\ lookup[r].kind = "absent"
    /\ pc[p] = "done" /\ pc[r] = "done"
    /\ writes[p] = 1 /\ writes[r] = 1
    /\ response[p].hostname # response[r].hostname
    /\ liveMiss # NoMiss /\ liveMiss.by = r
    /\ cache # Absent /\ cache.value = response[r]

\* what a call's lookup met: a stored value that is falsy
MetFalsy(p) == Looked(p) /\ lookup[p].kind = "falsy"

\* C10: a call whose lookup meets a stored but falsy value does what it
\* does on an absent key: it samples a snapshot at that time, returns it
\* with cache_status 'miss', and its cache.set replaces the entry by that
\* snapshot with a 300 second expiry.
C10_FalsyIsMiss ==
  /\ [](\A p \in Calls :
          MetFalsy(p) =>
            /\ pc[p] \in {"set", "done"}
            /\ \E h \in Hosts : cached_info[p] = Sample(h, lookup[p].at)
            /\ pc[p] = "done" =>
                 /\ response[p] = cached_info[p]
                 /\ writes[p] = 1)
  /\ [][\A p \in Calls :
          (MetFalsy(p) /\ SetStep(p)) =>
            cache' = Entry(cached_info[p], now + CacheTimeout)]_vars

C10_Witness ==
  \E p \in Calls :
    /\ MetFalsy(p)
    /\ lookup[p].entry.value = EmptyDict
    /\ pc[p] = "done"
    /\ response[p].cache_status = "miss"
    /\ cache = Entry(response[p], cache.expiry)

====
